---------------------------- MODULE Spec2Model ----------------------------
(***************************************************************************)
(* The Gladly -> Enterpret import pipeline: GladlyImporter.import and the  *)
(* collaborators it drives (GladlyClient, EnterpretClient, StateManager,   *)
(* Transformer), as one state machine.                                     *)
(*                                                                         *)
(* Time is counted in whole days since 2010-01-01T00:00:00Z.  A Date is an *)
(* integer; an ISO-8601 string is the record [iso |-> t]; an optional      *)
(* value is a sequence of length 0 (absent, null, undefined) or 1.         *)
(***************************************************************************)
EXTENDS Integers, Sequences, FiniteSets, TLC

VARIABLES
    clock,             \* the wall clock, as read by "new Date()"
    stateFile,         \* the state file: <<>> (no file) or <<[lastImportTime, updatedAt]>>
    runs,              \* number of import() calls made so far
    pc,                \* position of the current import() call
    batchSize,         \* GladlyImporter: this.batchSize
    feedbackData,      \* the record of a transformConversation or importFeedback call made on its own
    options,           \* import(options): isFullImport, startDate, endDate, limit
    metrics,           \* the metrics object of the run: conversationsCount and errorsCount
    importStartDate,   \* import: const importStartDate
    importEndDate,     \* import: const importEndDate
    allConversations,  \* _fetchConversations: allConversations
    page,              \* _fetchConversations: page
    todo,              \* import: the entries the for..of loop has not reached yet
    cur,               \* import: the loop variable "conversation" (<<>> outside the loop)
    items,             \* import: const items
    customer,          \* import: const customer (<<>> is null)
    http,              \* the request in flight in one of the two axios clients
    served,            \* source side: conversations handed out by the listing so far
    issuedKinds,       \* history: kinds of request issued in this run
    failures,          \* history: the failures that ended this run
    custReqs,          \* history: customer requests made for the current conversation
    itemsFailed,       \* history: the item fetch of the current conversation failed
    custFailed,        \* history: the customer fetch of the current conversation failed
    delivered,         \* history: ids of the records the destination accepted in this run
    enrichFailed,      \* history: ids of the conversations whose items or customer fetch failed in this run
    stateReads,        \* history: getLastImportTime calls in this run
    writes,            \* history: updateLastImportTime calls in this run
    stateBefore,       \* history: the state file when the run started
    nowAtResolve,      \* history: the clock when the window was resolved
    prevFail           \* history: <<start>> of the last finished run if it ended with errors

vars == <<clock, stateFile, runs, pc, batchSize, enrichFailed, feedbackData, options, metrics, importStartDate,
          importEndDate, allConversations, page, todo, cur, items, customer,
          http, served, issuedKinds, failures, custReqs, itemsFailed,
          custFailed, delivered, stateReads, writes, stateBefore,
          nowAtResolve, prevFail>>

-----------------------------------------------------------------------------
(* Bounds of the model *)

MaxRuns == 2          \* import() calls in one behaviour of SeqSpec
SeqConvs == 1         \* conversations the source holds in a window, in SeqSpec
HttpConvs == 1        \* conversations the source holds in a window, in HttpSpec
SmallBatch == 1       \* config.batchSize in SeqSpec and HttpSpec (BATCH_SIZE=1)
MaxTicks == 1         \* clock ticks in one behaviour
MaxConvs == 2         \* conversations the source holds in a window, in Spec
MaxLimit == 1         \* largest --limit given
Max429 == 1           \* 429 answers to one request
MaxRetryAfter == 1    \* largest Retry-After header, in seconds
MaxItems == 1         \* items of one conversation
CustReqCap == 3       \* the history counter custReqs saturates here
Clock0 == 31          \* the clock at the start, in days since 2010-01-01
BatchSize == 2        \* config.batchSize in Spec (BATCH_SIZE=2)
PageLimit == 3        \* largest --limit given in PageSpec
PageConvs == 4        \* conversations the source holds in a window, in PageSpec
MaxListLen == 4       \* items of one conversation, in TransformSpec
MaxAttrs == 2         \* customAttributes entries of one conversation, in FieldSpec
MaxBatch == 2         \* records of one importFeedbackBatch call, in BatchSpec
MaxTopicItems == 3    \* items of one conversation, in TopicSpec
MaxContacts == 2      \* emails, and phones, of one customer profile, in CustomerSpec

(* Program constants *)

LookbackDays == 30         \* defaultDate.setDate(defaultDate.getDate() - 30)
FullEpoch == 0             \* new Date('2010-01-01T00:00:00Z')
DefaultRetryAfter == 2     \* error.response.headers['retry-after'] || 2
MsPerSecond == 1000        \* this._delay(retryAfter * 1000)
PageDelayMs == 300         \* await this._delay(300)
maxRetries == 3            \* this.maxRetries = config.maxRetries || 3 (never read)

-----------------------------------------------------------------------------
(* Dates *)

\* Date.prototype.toISOString
ToISOString(t) == [iso |-> t]

\* new Date(isoString)
NewDate(s) == s.iso

\* the date a caller may give as --start-date or --end-date
ExplicitDates == {Clock0 - 2}

OptDates == {<<>>} \cup {<<ToISOString(d)>> : d \in ExplicitDates}

Options == [isFullImport : BOOLEAN, startDate : OptDates, endDate : OptDates,
            limit : 0..MaxLimit]

NoOptions == [isFullImport |-> FALSE, startDate |-> <<>>, endDate |-> <<>>, limit |-> 0]

Min(a, b) == IF a < b THEN a ELSE b

-----------------------------------------------------------------------------
(* StateManager *)

\* Mutant of getLastImportTime: a file that is not valid JSON reads as the
\* epoch
getLastImportTime_ReadsInvalid(file) ==
    IF file = <<>> THEN <<>>
    ELSE IF "unreadable" \in DOMAIN file[1] THEN <<>>
    ELSE IF "invalidJson" \in DOMAIN file[1] THEN <<ToISOString(FullEpoch)>>
    ELSE IF "lastImportTime" \in DOMAIN file[1] THEN <<file[1].lastImportTime>>
    ELSE <<>>

\* StateManager.getLastImportTime: null when the file is missing (access
\* rejects), cannot be read (readFile rejects), is not valid JSON (JSON.parse
\* throws) or holds no lastImportTime; else the stored ISO string
getLastImportTime(file) ==
    IF file = <<>> THEN <<>>
    ELSE IF "unreadable" \in DOMAIN file[1] THEN <<>>
    ELSE IF "invalidJson" \in DOMAIN file[1] THEN <<>>
    ELSE IF "lastImportTime" \in DOMAIN file[1] THEN <<file[1].lastImportTime>>
    ELSE <<>>

\* Mutant of updateLastImportTime: the time of the write is stored as the
\* last import time
updateLastImportTime_StoresNow(file, timestamp, now, written) ==
    IF written
    THEN <<[lastImportTime |-> ToISOString(now), updatedAt |-> ToISOString(now)]>>
    ELSE file

\* Mutant of updateLastImportTime: a write that fails leaves no file
updateLastImportTime_TruncatesOnFailure(file, timestamp, now, written) ==
    IF written
    THEN <<[lastImportTime |-> ToISOString(timestamp), updatedAt |-> ToISOString(now)]>>
    ELSE <<>>

\* StateManager.updateLastImportTime(timestamp): the file after the call;
\* written is FALSE when mkdir or writeFile rejects (the call returns false)
updateLastImportTime(file, timestamp, now, written) ==
    IF written
    THEN <<[lastImportTime |-> ToISOString(timestamp), updatedAt |-> ToISOString(now)]>>
    ELSE file

\* StateManager.resetState: the file after the call; removed is FALSE when
\* unlink rejects, which the inner catch swallows like a missing file
resetState(file, removed) ==
    IF file = <<>> THEN file
    ELSE IF removed THEN <<>> ELSE file

\* What resetState returns: nothing reaches the outer catch
resetStateReturns(file, removed) == TRUE

-----------------------------------------------------------------------------
(* Transformer *)

ContentTypes == {"CHAT_MESSAGE", "EMAIL", "SMS", "TWITTER", "FACEBOOK_MESSENGER",
                 "INSTAGRAM_DIRECT", "WHATSAPP", "PHONE_CALL", "VOICEMAIL",
                 "CUSTOMER_ACTIVITY"}

\* this.channelMap[type] || 'other'
channelMap(type) ==
    CASE type = "CHAT_MESSAGE" -> "chat"
      [] type = "EMAIL" -> "email"
      [] type = "SMS" -> "sms"
      [] type \in {"TWITTER", "FACEBOOK_MESSENGER", "INSTAGRAM_DIRECT"} -> "social"
      [] type = "WHATSAPP" -> "messaging"
      [] type \in {"PHONE_CALL", "VOICEMAIL"} -> "voice"
      [] OTHER -> "other"

\* the channels of the items in order of first appearance: the key order of
\* channelCounts, which Object.entries walks
RECURSIVE ChannelOrder(_)
ChannelOrder(its) ==
    IF its = <<>> THEN <<>>
    ELSE LET front == ChannelOrder(SubSeq(its, 1, Len(its) - 1))
             ch == channelMap(its[Len(its)].type)
         IN IF \E i \in 1..Len(front) : front[i] = ch THEN front ELSE Append(front, ch)

ChannelCount(its, ch) == Cardinality({i \in 1..Len(its) : channelMap(its[i].type) = ch})

\* Mutant of PickChannel (first): the first channel seen wins whatever its count
PickChannel_FirstSeen(order, its, primaryChannel, maxCount) ==
    IF order = <<>> THEN primaryChannel ELSE Head(order)

\* Mutant of PickChannel (second): a later channel with an equal count
\* replaces the current one (count >= maxCount)
RECURSIVE PickChannel_LastTied(_, _, _, _)
PickChannel_LastTied(order, its, primaryChannel, maxCount) ==
    IF order = <<>> THEN primaryChannel
    ELSE LET count == Cardinality({i \in 1..Len(its) :
                                     channelMap(its[i].type) = Head(order)})
         IN IF count >= maxCount
            THEN PickChannel_LastTied(Tail(order), its, Head(order), count)
            ELSE PickChannel_LastTied(Tail(order), its, primaryChannel, maxCount)

\* the loop over Object.entries(channelCounts): a later channel replaces the
\* current one only with a strictly larger count
RECURSIVE PickChannel(_, _, _, _)
PickChannel(order, its, primaryChannel, maxCount) ==
    IF order = <<>> THEN primaryChannel
    ELSE LET count == ChannelCount(its, Head(order))
         IN IF count > maxCount
            THEN PickChannel(Tail(order), its, Head(order), count)
            ELSE PickChannel(Tail(order), its, primaryChannel, maxCount)

\* Transformer._determinePrimaryChannel
determinePrimaryChannel(its) ==
    IF its = <<>> THEN "other" ELSE PickChannel(ChannelOrder(its), its, "other", 0)

\* Mutant of SortByTimestamp: the items are left in input order
SortByTimestamp_None(its) == its

\* Array.prototype.sort with the timestamp comparator (stable): insertion sort
RECURSIVE SortByTimestamp(_)
SortByTimestamp(its) ==
    IF its = <<>> THEN <<>>
    ELSE LET front == SortByTimestamp(SubSeq(its, 1, Len(its) - 1))
             x == its[Len(its)]
             k == Cardinality({i \in 1..Len(front) : front[i].timestamp <= x.timestamp})
         IN SubSeq(front, 1, k) \o <<x>> \o SubSeq(front, k + 1, Len(front))

Rendered == {"CHAT_MESSAGE", "EMAIL", "SMS", "PHONE_CALL", "CONVERSATION_NOTE",
             "CONVERSATION_STATUS_CHANGE", "CUSTOMER_ACTIVITY"}

\* Mutant of TopicChangeLine: the added line is kept when both lists have
\* topics (the second if is an else if)
TopicChangeLine_AddedWins(it) ==
    IF it.addedTopicIds # <<>> THEN <<"TOPICS ADDED">>
    ELSE IF it.removedTopicIds # <<>> THEN <<"TOPICS REMOVED">>
    ELSE <<>>

\* _processConversationItems, case 'TOPIC_CHANGE': formattedContent after the
\* two ifs, as the kind of line it holds (<<>> is the empty string, which is
\* not pushed).  An absent list and an empty list are both <<>>.
TopicChangeLine(it) ==
    LET afterAdded == IF it.addedTopicIds # <<>> THEN <<"TOPICS ADDED">> ELSE <<>>
    IN IF it.removedTopicIds # <<>> THEN <<"TOPICS REMOVED">> ELSE afterAdded

\* Mutant of RenderItems: the default case formats the item too
RECURSIVE RenderItems_RendersAll(_)
RenderItems_RendersAll(sorted) ==
    IF sorted = <<>> THEN <<>>
    ELSE <<[ts |-> Head(sorted).timestamp, type |-> Head(sorted).type]>>
            \o RenderItems_RendersAll(Tail(sorted))

\* Transformer._processConversationItems: the blocks of the content, in
\* order; the empty sequence is the empty string
RECURSIVE RenderItems(_)
RenderItems(sorted) ==
    IF sorted = <<>> THEN <<>>
    ELSE LET it == Head(sorted)
         IN IF it.type \in Rendered
            THEN <<[ts |-> it.timestamp, type |-> it.type]>> \o RenderItems(Tail(sorted))
            ELSE IF it.type = "TOPIC_CHANGE" /\ TopicChangeLine(it) # <<>>
            THEN <<[ts |-> it.timestamp, type |-> TopicChangeLine(it)[1]]>>
                    \o RenderItems(Tail(sorted))
            ELSE RenderItems(Tail(sorted))

processConversationItems(its) ==
    IF its = <<>> THEN <<>> ELSE RenderItems(SortByTimestamp(its))

\* Mutant of PickPrimary: the first entry is taken whatever the flags
PickPrimary_First(entries) == entries[1]

\* _transformCustomer, lines 122 and 127: entries.find(e => e.primary) ||
\* entries[0], for a non-empty list
PickPrimary(entries) ==
    IF \E i \in 1..Len(entries) : entries[i].primary
    THEN entries[CHOOSE i \in 1..Len(entries) :
                    /\ entries[i].primary
                    /\ \A j \in 1..(i - 1) : ~entries[j].primary]
    ELSE entries[1]

\* _transformCustomer, lines 123 and 128: entry.normalized || entry.original
ContactValue(entry) ==
    IF entry.normalized # <<>> THEN entry.normalized[1] ELSE entry.original

\* Transformer._transformCustomer: a field that is not set is <<>>
transformCustomer(cust) ==
    [id |-> cust.id,
     name |-> cust.name,
     email |-> IF cust.emails # <<>> THEN <<ContactValue(PickPrimary(cust.emails))>> ELSE <<>>,
     phone |-> IF cust.phones # <<>> THEN <<ContactValue(PickPrimary(cust.phones))>> ELSE <<>>,
     externalId |-> cust.externalCustomerId]

\* Transformer._transformCustomAttributes: the mapping from id to value of the
\* entries that have an id and a value (a later entry replaces an earlier one
\* of the same id); the mapping without keys is <<>>
transformCustomAttributes(customAttributes) ==
    LET kept == {i \in 1..Len(customAttributes) :
                    customAttributes[i].id # <<>> /\ customAttributes[i].value # <<>>}
        ids == {customAttributes[i].id[1] : i \in kept}
    IN [k \in ids |->
          customAttributes[CHOOSE i \in kept :
                              /\ customAttributes[i].id[1] = k
                              /\ \A j \in kept : customAttributes[j].id[1] = k => j <= i].value[1]]

\* The time value of an invalid Date (new Date(undefined).getTime() is NaN)
NaN == -1

\* String.prototype.toLowerCase on the statuses of the model
toLowerCase(status) == IF status = "OPEN" THEN "open" ELSE "closed"

\* Mutant of transformConversation: the id is built from the item list (its
\* length) instead of the conversation's id
transformConversation_IdFromItems(conversation, its, cust) ==
    IF conversation.status = <<>> \/ \E i \in 1..Len(its) : its[i].timestamp = NaN
    THEN [threw |-> TRUE]
    ELSE [threw |-> FALSE,
          id |-> <<"gladly_", Len(its)>>,
          source |-> "Gladly",
          channel |-> determinePrimaryChannel(its),
          timestamp |-> conversation.createdAt,
          status |-> toLowerCase(conversation.status[1]),
          metadata |-> <<[gladly_conversation_id |-> conversation.id]>>,
          agent |-> IF conversation.agentId # <<>>
                    THEN <<[id |-> conversation.agentId[1]]>> ELSE <<>>,
          customer |-> IF cust = <<>> THEN <<>> ELSE <<transformCustomer(cust[1])>>,
          tags |-> IF conversation.topicIds # <<>> /\ conversation.topicIds[1] # <<>>
                   THEN conversation.topicIds ELSE <<>>,
          content |-> processConversationItems(its),
          customAttributes |->
              IF conversation.customAttributes # <<>>
                 /\ conversation.customAttributes[1] # <<>>
              THEN <<transformCustomAttributes(conversation.customAttributes[1])>>
              ELSE <<>>]

\* Mutant of transformConversation: the record carries no metadata
transformConversation_NoMetadata(conversation, its, cust) ==
    IF conversation.status = <<>> \/ \E i \in 1..Len(its) : its[i].timestamp = NaN
    THEN [threw |-> TRUE]
    ELSE [threw |-> FALSE,
          id |-> IF conversation.hasId THEN <<"gladly_", conversation.id>>
                ELSE <<"gladly_undefined">>,
          source |-> "Gladly",
          channel |-> determinePrimaryChannel(its),
          timestamp |-> conversation.createdAt,
          status |-> toLowerCase(conversation.status[1]),
          metadata |-> <<>>,
          agent |-> IF conversation.agentId # <<>>
                    THEN <<[id |-> conversation.agentId[1]]>> ELSE <<>>,
          customer |-> IF cust = <<>> THEN <<>> ELSE <<transformCustomer(cust[1])>>,
          tags |-> IF conversation.topicIds # <<>> /\ conversation.topicIds[1] # <<>>
                   THEN conversation.topicIds ELSE <<>>,
          content |-> processConversationItems(its),
          customAttributes |->
              IF conversation.customAttributes # <<>>
                 /\ conversation.customAttributes[1] # <<>>
              THEN <<transformCustomAttributes(conversation.customAttributes[1])>>
              ELSE <<>>]

\* Transformer.transformConversation: the record, or [threw |-> TRUE] when
\* conversation.status is undefined (TypeError at line 39) or an item has no
\* valid timestamp (RangeError of toISOString at line 160), rethrown by the
\* catch.  An optional field of the record that is not set is <<>>; a
\* conversation without id gets the id "gladly_undefined".
transformConversation(conversation, its, cust) ==
    IF conversation.status = <<>> \/ \E i \in 1..Len(its) : its[i].timestamp = NaN
    THEN [threw |-> TRUE]
    ELSE [threw |-> FALSE,
          id |-> IF conversation.hasId THEN <<"gladly_", conversation.id>>
                ELSE <<"gladly_undefined">>,
          source |-> "Gladly",
          channel |-> determinePrimaryChannel(its),
          timestamp |-> conversation.createdAt,
          status |-> toLowerCase(conversation.status[1]),
          metadata |-> <<[gladly_conversation_id |-> conversation.id]>>,
          agent |-> IF conversation.agentId # <<>>
                    THEN <<[id |-> conversation.agentId[1]]>> ELSE <<>>,
          customer |-> IF cust = <<>> THEN <<>> ELSE <<transformCustomer(cust[1])>>,
          tags |-> IF conversation.topicIds # <<>> /\ conversation.topicIds[1] # <<>>
                   THEN conversation.topicIds ELSE <<>>,
          content |-> processConversationItems(its),
          customAttributes |->
              IF conversation.customAttributes # <<>>
                 /\ conversation.customAttributes[1] # <<>>
              THEN <<transformCustomAttributes(conversation.customAttributes[1])>>
              ELSE <<>>]

-----------------------------------------------------------------------------
(* EnterpretClient *)

\* Mutant of validateFeedbackData: the timestamp is not looked at
validateFeedbackData_NoTimestamp(data) ==
    /\ data.id # <<>>
    /\ data.source # ""
    /\ ~(data.content = <<>> /\ data.metadata = <<>>)

\* EnterpretClient._validateFeedbackData: TRUE when nothing is thrown.  A
\* field is lacking when it is falsy: absent, or the empty string.
validateFeedbackData(data) ==
    /\ data.id # <<>>
    /\ data.source # ""
    /\ data.timestamp # <<>>
    /\ ~(data.content = <<>> /\ data.metadata = <<>>)

\* Mutant of importFeedbackBatchChecks: only the first element is checked
importFeedbackBatchChecks_FirstOnly(feedbackItems) ==
    /\ feedbackItems # <<>>
    /\ Len(feedbackItems[1]) # 0
    /\ validateFeedbackData(feedbackItems[1][1])

\* EnterpretClient.importFeedbackBatch, lines 80-84: TRUE when nothing is
\* thrown.  feedbackItems is <<>> when the argument is missing, else <<list>>.
importFeedbackBatchChecks(feedbackItems) ==
    /\ feedbackItems # <<>>
    /\ Len(feedbackItems[1]) # 0
    /\ \A i \in 1..Len(feedbackItems[1]) : validateFeedbackData(feedbackItems[1][i])

\* The records importFeedback may be called with: each of the five fields the
\* check reads is present or lacking
FeedbackRecords ==
    [id : {<<>>, <<"gladly_", 1>>},
     source : {"", "Gladly"},
     timestamp : {<<>>, <<ToISOString(Clock0 - 1)>>},
     content : {<<>>, <<[ts |-> 1, type |-> "CHAT_MESSAGE"]>>},
     metadata : {<<>>, <<[gladly_conversation_id |-> 1]>>}]

-----------------------------------------------------------------------------
(* The source's data *)

ConvKinds == {"ok", "nostatus", "null"}

\* One line of an export file, parsed: a conversation with all fields, one
\* without status, or the JSON value null
MkConv(i, kind) ==
    [isNull |-> kind = "null",
     hasId |-> TRUE,
     id |-> i,
     createdAt |-> <<ToISOString(Clock0 - 1)>>,
     status |-> IF kind = "ok" THEN <<"OPEN">> ELSE <<>>,
     customerId |-> "c1",
     agentId |-> <<>>,
     topicIds |-> <<>>,
     customAttributes |-> <<>>]

\* A customer profile that carries an id only
MkCustomer(id) ==
    [id |-> id, name |-> <<>>, emails |-> <<>>, phones |-> <<>>,
     externalCustomerId |-> <<>>]

CustomerIds == {"c1", "c2"}

MkItems(n) == [i \in 1..n |-> [type |-> "CHAT_MESSAGE", timestamp |-> i]]

\* The items transformConversation is called with on its own: chat messages
\* at two times, an email at the time of the first, a tweet (in the channel
\* table, no case in the switch) and a note (a case in the switch, not in the
\* channel table)
SourceItems ==
    {[type |-> "CHAT_MESSAGE", timestamp |-> 1],
     [type |-> "CHAT_MESSAGE", timestamp |-> 2],
     [type |-> "EMAIL", timestamp |-> 1],
     [type |-> "TWITTER", timestamp |-> 1],
     [type |-> "CONVERSATION_NOTE", timestamp |-> 2]}

ConvIds == {1, 2}

TransformCustomers == {<<>>, <<MkCustomer("c1")>>}

-----------------------------------------------------------------------------
(* The axios clients *)

HttpIdle == [phase |-> "idle", client |-> "none", kind |-> "none", arg |-> <<>>,
             issued |-> 0, n429 |-> 0, header |-> <<>>, wait |-> 0]

\* this.client.get / this.client.post: the request goes out
Send(client, kind, arg) ==
    [phase |-> "sent", client |-> client, kind |-> kind, arg |-> arg,
     issued |-> 1, n429 |-> 0, header |-> <<>>, wait |-> 0]

\* Retry-After headers: absent, or a number of seconds (the string "0" is
\* truthy in JavaScript, so only an absent header takes the default)
RetryAfterHeaders == {<<>>} \cup {<<s>> : s \in 0..MaxRetryAfter}

\* Mutant of GladlyRetryDelay: the Retry-After header is not read
GladlyRetryDelay_HeaderIgnored(header) == DefaultRetryAfter * MsPerSecond

\* GladlyClient response interceptor: the delay before the replay, in ms
GladlyRetryDelay(header) ==
    (IF header = <<>> THEN DefaultRetryAfter ELSE header[1]) * MsPerSecond

\* EnterpretClient response interceptor: the delay before the replay, in ms
EnterpretRetryDelay(header) ==
    (IF header = <<>> THEN DefaultRetryAfter ELSE header[1]) * MsPerSecond

-----------------------------------------------------------------------------
(* GladlyImporter *)

\* import, lines 207-214.  itemsCount and customersCount are only ever added
\* to and startTime and endTime only ever set: nothing reads them during a
\* run, and they are left out of the state.
ZeroMetrics == [conversationsCount |-> 0, errorsCount |-> 0]

Idle == {"idle", "returned", "aborted"}

\* Mutant of determineStartDate: the stored time is looked up before the
\* full-import flag
determineStartDate_StateFirst(isFullImport, userStartDate, file, now) ==
    IF userStartDate # <<>> THEN NewDate(userStartDate[1])
    ELSE LET lastImportTime == getLastImportTime(file)
         IN IF lastImportTime # <<>>
            THEN NewDate(lastImportTime[1])
            ELSE IF isFullImport THEN FullEpoch
            ELSE now - LookbackDays

\* GladlyImporter._determineStartDate
determineStartDate(isFullImport, userStartDate, file, now) ==
    IF userStartDate # <<>> THEN NewDate(userStartDate[1])
    ELSE IF isFullImport THEN FullEpoch
    ELSE LET lastImportTime == getLastImportTime(file)
         IN IF lastImportTime # <<>>
            THEN NewDate(lastImportTime[1])
            ELSE now - LookbackDays

\* import, line 222: endDate ? new Date(endDate) : new Date()
resolveEndDate(endDate, now) ==
    IF endDate # <<>> THEN NewDate(endDate[1]) ELSE now

\* The state file as an earlier run left it, or none
WrittenStateFiles ==
    {<<>>, <<[lastImportTime |-> ToISOString(Clock0 - 1),
              updatedAt |-> ToISOString(Clock0 - 1)]>>}

\* The state file in any condition: also one that cannot be read, one that
\* is not valid JSON, and one whose JSON holds no lastImportTime
StateFiles ==
    WrittenStateFiles \cup {<<[unreadable |-> TRUE]>>,
                            <<[invalidJson |-> TRUE]>>,
                            <<[updatedAt |-> ToISOString(Clock0 - 1)]>>}

\* The state once the importer is constructed with config.batchSize = size
\* and the state file is one of files
InitFrom(size, files) ==
    /\ batchSize = size
    /\ feedbackData = <<>>
    /\ enrichFailed = {}
    /\ clock = Clock0
    /\ stateFile \in files
    /\ runs = 0
    /\ pc = "idle"
    /\ options = NoOptions
    /\ metrics = ZeroMetrics
    /\ importStartDate = <<>>
    /\ importEndDate = <<>>
    /\ allConversations = <<>>
    /\ page = 0
    /\ todo = <<>>
    /\ cur = <<>>
    /\ items = <<>>
    /\ customer = <<>>
    /\ http = HttpIdle
    /\ served = 0
    /\ issuedKinds = {}
    /\ failures = {}
    /\ custReqs = 0
    /\ itemsFailed = FALSE
    /\ custFailed = FALSE
    /\ delivered = <<>>
    /\ stateReads = 0
    /\ writes = <<>>
    /\ stateBefore = <<>>
    /\ nowAtResolve = <<>>
    /\ prevFail = <<>>

InitWith(size) == InitFrom(size, WrittenStateFiles)

Init == InitWith(BatchSize)

\* Time passes.  The clock is read only when the window is resolved and when
\* the state is written, so a tick is taken just before those reads or
\* between runs.
Tick ==
    /\ pc \in Idle \cup {"resolve", "finalize"}
    /\ clock < Clock0 + MaxTicks
    /\ clock' = clock + 1
    /\ UNCHANGED <<stateFile, runs, pc, batchSize, enrichFailed, feedbackData, options, metrics, importStartDate,
                   importEndDate, allConversations, page, todo, cur, items,
                   customer, http, served, issuedKinds, failures, custReqs,
                   itemsFailed, custFailed, delivered, stateReads, writes,
                   stateBefore, nowAtResolve, prevFail>>

\* import(options) is called: metrics are zeroed and _validateConnections
\* sends the source's GET /api/v1/organization
StartRun(o, maxRuns) ==
    /\ pc \in Idle
    /\ runs < maxRuns
    /\ runs' = runs + 1
    /\ options' = o
    /\ metrics' = ZeroMetrics
    /\ importStartDate' = <<>>
    /\ importEndDate' = <<>>
    /\ allConversations' = <<>>
    /\ page' = 0
    /\ todo' = <<>>
    /\ cur' = <<>>
    /\ items' = <<>>
    /\ customer' = <<>>
    /\ served' = 0
    /\ failures' = {}
    /\ custReqs' = 0
    /\ itemsFailed' = FALSE
    /\ custFailed' = FALSE
    /\ delivered' = <<>>
    /\ stateReads' = 0
    /\ writes' = <<>>
    /\ stateBefore' = stateFile
    /\ nowAtResolve' = <<>>
    /\ pc' = "validateSource"
    /\ http' = Send("gladly", "org", <<>>)
    /\ issuedKinds' = {"org"}
    /\ enrichFailed' = {}
    /\ UNCHANGED <<clock, stateFile, batchSize, feedbackData, prevFail>>

\* Response interceptor of either client, status 429: wait the Retry-After
\* delay
RateLimited(header) ==
    /\ http.phase = "sent"
    /\ http.n429 < Max429
    /\ http' = [http EXCEPT !.phase = "waiting",
                            !.n429 = @ + 1,
                            !.header = header,
                            !.wait = IF http.client = "gladly"
                                     THEN GladlyRetryDelay(header)
                                     ELSE EnterpretRetryDelay(header)]
    /\ UNCHANGED <<clock, stateFile, runs, batchSize, enrichFailed, feedbackData, pc, options, metrics, importStartDate,
                   importEndDate, allConversations, page, todo, cur, items,
                   customer, served, issuedKinds, failures, custReqs,
                   itemsFailed, custFailed, delivered, stateReads, writes,
                   stateBefore, nowAtResolve, prevFail>>

\* Response interceptor, after the delay: return this.client(error.config)
Replay ==
    /\ http.phase = "waiting"
    /\ http' = [http EXCEPT !.phase = "sent", !.issued = @ + 1]
    /\ UNCHANGED <<clock, stateFile, runs, batchSize, enrichFailed, feedbackData, pc, options, metrics, importStartDate,
                   importEndDate, allConversations, page, todo, cur, items,
                   customer, served, issuedKinds, failures, custReqs,
                   itemsFailed, custFailed, delivered, stateReads, writes,
                   stateBefore, nowAtResolve, prevFail>>

\* import's outer catch: log and rethrow; the run is over
Abort(cause) ==
    /\ pc' = "aborted"
    /\ failures' = failures \cup {cause}
    /\ http' = HttpIdle
    /\ prevFail' = <<>>

\* GladlyClient.validateConnection succeeded: EnterpretClient's GET
\* /api/v1/status goes out
ValidateSourceOk ==
    /\ pc = "validateSource" /\ http.phase = "sent"
    /\ pc' = "validateDest"
    /\ http' = Send("enterpret", "status", <<>>)
    /\ issuedKinds' = issuedKinds \cup {"status"}
    /\ UNCHANGED <<clock, stateFile, runs, batchSize, enrichFailed, feedbackData, options, metrics, importStartDate,
                   importEndDate, allConversations, page, todo, cur, items,
                   customer, served, failures, custReqs, itemsFailed,
                   custFailed, delivered, stateReads, writes, stateBefore,
                   nowAtResolve, prevFail>>

\* GladlyClient.validateConnection threw: _validateConnections rethrows
ValidateSourceFail ==
    /\ pc = "validateSource" /\ http.phase = "sent"
    /\ Abort("source")
    /\ UNCHANGED <<clock, stateFile, runs, batchSize, enrichFailed, feedbackData, options, metrics, importStartDate,
                   importEndDate, allConversations, page, todo, cur, items,
                   customer, served, issuedKinds, custReqs, itemsFailed,
                   custFailed, delivered, stateReads, writes, stateBefore,
                   nowAtResolve>>

\* EnterpretClient.validateConnection succeeded
ValidateDestOk ==
    /\ pc = "validateDest" /\ http.phase = "sent"
    /\ pc' = "resolve"
    /\ http' = HttpIdle
    /\ UNCHANGED <<clock, stateFile, runs, batchSize, enrichFailed, feedbackData, options, metrics, importStartDate,
                   importEndDate, allConversations, page, todo, cur, items,
                   customer, served, issuedKinds, failures, custReqs,
                   itemsFailed, custFailed, delivered, stateReads, writes,
                   stateBefore, nowAtResolve, prevFail>>

\* Mutant of ValidateDestFail: the failure is logged and the run goes on
ValidateDestFail_Swallowed ==
    /\ pc = "validateDest" /\ http.phase = "sent"
    /\ pc' = "resolve"
    /\ failures' = failures \cup {"dest"}
    /\ http' = HttpIdle
    /\ UNCHANGED <<clock, stateFile, runs, batchSize, enrichFailed, feedbackData, options, metrics, importStartDate,
                   importEndDate, allConversations, page, todo, cur, items,
                   customer, served, issuedKinds, custReqs, itemsFailed,
                   custFailed, delivered, stateReads, writes, stateBefore,
                   nowAtResolve, prevFail>>

\* EnterpretClient.validateConnection threw
ValidateDestFail ==
    /\ pc = "validateDest" /\ http.phase = "sent"
    /\ Abort("dest")
    /\ UNCHANGED <<clock, stateFile, runs, batchSize, enrichFailed, feedbackData, options, metrics, importStartDate,
                   importEndDate, allConversations, page, todo, cur, items,
                   customer, served, issuedKinds, custReqs, itemsFailed,
                   custFailed, delivered, stateReads, writes, stateBefore,
                   nowAtResolve>>

\* GladlyClient.fetchConversations(options): GET /api/v1/export/jobs with the
\* window and the page's offset and limit
ListRequest(start, end, p) ==
    Send("gladly", "list",
         [startDate |-> ToISOString(start), endDate |-> ToISOString(end),
          page |-> p, pageSize |-> batchSize])

\* import, lines 221-227: the window is resolved and _fetchConversations asks
\* for page 1
Resolve ==
    /\ pc = "resolve"
    /\ LET start == determineStartDate(options.isFullImport, options.startDate,
                                       stateFile, clock)
           end == resolveEndDate(options.endDate, clock)
       IN /\ importStartDate' = <<start>>
          /\ importEndDate' = <<end>>
          /\ http' = ListRequest(start, end, 1)
    /\ stateReads' = IF options.startDate = <<>> /\ ~options.isFullImport
                     THEN stateReads + 1 ELSE stateReads
    /\ nowAtResolve' = <<clock>>
    /\ allConversations' = <<>>
    /\ page' = 1
    /\ pc' = "paging"
    /\ issuedKinds' = issuedKinds \cup {"list"}
    /\ UNCHANGED <<clock, stateFile, runs, batchSize, enrichFailed, feedbackData, options, metrics, todo, cur, items,
                   customer, served, failures, custReqs, itemsFailed,
                   custFailed, delivered, writes, stateBefore, prevFail>>

\* import, lines 233-254: the for..of loop moves on to the next entry of the
\* list, with metrics m and the failures fl recorded so far.
\*  - no entry left: the loop ends, line 257 is next;
\*  - the entry is null: conversation.id throws inside the try (line 236),
\*    the catch counts the error (line 251) and its own conversation.id
\*    (line 252) throws again, out to the outer catch (lines 266-269);
\*  - else _fetchConversationItems(conversation.id) sends the item request.
EnterLoop(list, m, fl) ==
    /\ items' = <<>>
    /\ customer' = <<>>
    /\ custReqs' = 0
    /\ itemsFailed' = FALSE
    /\ custFailed' = FALSE
    /\ IF list = <<>>
       THEN /\ pc' = "finalize"
            /\ metrics' = m
            /\ todo' = <<>>
            /\ cur' = <<>>
            /\ http' = HttpIdle
            /\ failures' = fl
            /\ UNCHANGED <<issuedKinds, prevFail>>
       ELSE IF Head(list).isNull
       THEN /\ pc' = "aborted"
            /\ metrics' = [m EXCEPT !.errorsCount = @ + 1]
            /\ todo' = Tail(list)
            /\ cur' = <<Head(list)>>
            /\ http' = HttpIdle
            /\ failures' = fl \cup {"loop"}
            /\ prevFail' = <<>>
            /\ UNCHANGED issuedKinds
       ELSE /\ pc' = "items"
            /\ metrics' = m
            /\ todo' = Tail(list)
            /\ cur' = <<Head(list)>>
            /\ http' = Send("gladly", "items", Head(list).id)
            /\ failures' = fl
            /\ issuedKinds' = issuedKinds \cup {"items"}
            /\ UNCHANGED prevFail

\* Mutant of AfterPage: the list is not cut to the limit
AfterPage_NoTruncate(conversations, resultHasMore) ==
    LET all == allConversations \o conversations
        limit == options.limit
        hasMore == resultHasMore /\ (limit = 0 \/ Len(all) < limit)
    IN /\ page' = page + 1
       /\ served' = served + Len(conversations)
       /\ allConversations' = all
       /\ IF hasMore
          THEN /\ pc' = "pageDelay"
               /\ http' = [HttpIdle EXCEPT !.wait = PageDelayMs]
               /\ UNCHANGED <<metrics, todo, cur, items, customer, issuedKinds,
                              failures, custReqs, itemsFailed, custFailed, prevFail>>
          ELSE EnterLoop(all, [metrics EXCEPT !.conversationsCount = Len(all)],
                         failures)

\* _fetchConversations, lines 322-338, once a page has arrived, and import,
\* lines 228-233, when paging is over
AfterPage(conversations, resultHasMore) ==
    LET all == allConversations \o conversations
        limit == options.limit
        hasMore == resultHasMore /\ (limit = 0 \/ Len(all) < limit)
    IN /\ page' = page + 1
       /\ served' = served + Len(conversations)
       /\ IF limit # 0 /\ Len(all) >= limit
          THEN /\ allConversations' = SubSeq(all, 1, limit)
               /\ EnterLoop(SubSeq(all, 1, limit),
                            [metrics EXCEPT !.conversationsCount = limit], failures)
          ELSE IF hasMore
          THEN /\ allConversations' = all
               /\ pc' = "pageDelay"
               /\ http' = [HttpIdle EXCEPT !.wait = PageDelayMs]
               /\ UNCHANGED <<metrics, todo, cur, items, customer, issuedKinds,
                              failures, custReqs, itemsFailed, custFailed, prevFail>>
          ELSE /\ allConversations' = all
               /\ EnterLoop(all, [metrics EXCEPT !.conversationsCount = Len(all)],
                            failures)

\* GladlyClient.fetchConversations returned a page: n conversations parsed
\* from the export files (none when response.data is not an array), hasMore
\* when the page is full.  The source holds maxConvs conversations at most.
FetchPageOk(maxConvs) ==
    /\ pc = "paging" /\ http.phase = "sent"
    /\ \E n \in 0..Min(batchSize, maxConvs - served) :
         \E kinds \in [1..n -> ConvKinds] :
            AfterPage([i \in 1..n |-> MkConv(served + i, kinds[i])], n >= batchSize)
    /\ UNCHANGED <<clock, stateFile, runs, batchSize, enrichFailed, feedbackData, options, importStartDate, importEndDate,
                   delivered, stateReads, writes, stateBefore, nowAtResolve>>

\* Mutant of FetchPageFail: the pages retrieved so far are imported
FetchPageFail_KeepsRetrieved ==
    /\ pc = "paging" /\ http.phase = "sent"
    /\ EnterLoop(allConversations,
                 [metrics EXCEPT !.conversationsCount = Len(allConversations)],
                 failures \cup {"listing"})
    /\ UNCHANGED <<clock, stateFile, runs, batchSize, enrichFailed, feedbackData, options, importStartDate,
                   importEndDate, allConversations, page, served, delivered,
                   stateReads, writes, stateBefore, nowAtResolve>>

\* GladlyClient.fetchConversations threw (a request of the listing failed):
\* _fetchConversations and import let it through
FetchPageFail ==
    /\ pc = "paging" /\ http.phase = "sent"
    /\ Abort("listing")
    /\ UNCHANGED <<clock, stateFile, runs, batchSize, enrichFailed, feedbackData, options, metrics, importStartDate,
                   importEndDate, allConversations, page, todo, cur, items,
                   customer, served, issuedKinds, custReqs, itemsFailed,
                   custFailed, delivered, stateReads, writes, stateBefore,
                   nowAtResolve>>

\* Mutant of NextPage: the page just received is asked for again
NextPage_Repeats ==
    /\ pc = "pageDelay"
    /\ pc' = "paging"
    /\ http' = ListRequest(importStartDate[1], importEndDate[1], page - 1)
    /\ UNCHANGED <<clock, stateFile, runs, batchSize, enrichFailed, feedbackData, options, metrics, importStartDate,
                   importEndDate, allConversations, page, todo, cur, items,
                   customer, served, issuedKinds, failures, custReqs,
                   itemsFailed, custFailed, delivered, stateReads, writes,
                   stateBefore, nowAtResolve, prevFail>>

\* _fetchConversations, line 334: the delay between two pages is over and
\* the next page is asked for
NextPage ==
    /\ pc = "pageDelay"
    /\ pc' = "paging"
    /\ http' = ListRequest(importStartDate[1], importEndDate[1], page)
    /\ UNCHANGED <<clock, stateFile, runs, batchSize, enrichFailed, feedbackData, options, metrics, importStartDate,
                   importEndDate, allConversations, page, todo, cur, items,
                   customer, served, issuedKinds, failures, custReqs,
                   itemsFailed, custFailed, delivered, stateReads, writes,
                   stateBefore, nowAtResolve, prevFail>>

\* import, lines 237-240: the items are in (its; failed when
\* _fetchConversationItems caught an error and returned []) and
\* _fetchCustomer sends the customer request
AfterItems(its, failed) ==
    /\ pc' = "customer"
    /\ items' = its
    /\ itemsFailed' = failed
    /\ enrichFailed' = IF failed THEN enrichFailed \cup {cur[1].id} ELSE enrichFailed
    /\ http' = Send("gladly", "customer", cur[1].customerId)
    /\ custReqs' = 1
    /\ issuedKinds' = issuedKinds \cup {"customer"}
    /\ UNCHANGED <<metrics, todo, cur, customer, custFailed, failures, prevFail>>

\* GladlyClient.fetchConversationItems returned response.data or []
ItemsOk ==
    /\ pc = "items" /\ http.phase = "sent"
    /\ \E n \in 0..MaxItems : AfterItems(MkItems(n), FALSE)
    /\ UNCHANGED <<clock, stateFile, runs, batchSize, feedbackData, options, importStartDate, importEndDate,
                   allConversations, page, served, delivered, stateReads, writes,
                   stateBefore, nowAtResolve>>

\* Mutant of ItemsFail: _fetchConversationItems lets the error through to the
\* loop's catch
ItemsFail_Propagates ==
    /\ pc = "items" /\ http.phase = "sent"
    /\ EnterLoop(todo, [metrics EXCEPT !.errorsCount = @ + 1], failures)
    /\ UNCHANGED <<clock, stateFile, runs, batchSize, enrichFailed, feedbackData, options, importStartDate,
                   importEndDate, allConversations, page, served, delivered,
                   stateReads, writes, stateBefore, nowAtResolve>>

\* GladlyClient.fetchConversationItems threw: _fetchConversationItems
\* catches, logs and returns []
ItemsFail ==
    /\ pc = "items" /\ http.phase = "sent"
    /\ AfterItems(<<>>, TRUE)
    /\ UNCHANGED <<clock, stateFile, runs, batchSize, feedbackData, options, importStartDate, importEndDate,
                   allConversations, page, served, delivered, stateReads, writes,
                   stateBefore, nowAtResolve>>

\* import, lines 241-254: the customer is in (cust; failed when
\* _fetchCustomer caught an error and returned null); the conversation is
\* transformed and importFeedback validates the record and posts it.  A throw
\* of the transformer or of the validation lands in the loop's catch.
AfterCustomer(cust, failed) ==
    LET m == metrics
        transformedData == transformConversation(cur[1], items, cust)
    IN /\ enrichFailed' = IF failed THEN enrichFailed \cup {cur[1].id} ELSE enrichFailed
       /\ IF transformedData.threw
          THEN EnterLoop(todo, [m EXCEPT !.errorsCount = @ + 1], failures)
          ELSE IF ~validateFeedbackData(transformedData)
          THEN EnterLoop(todo, [m EXCEPT !.errorsCount = @ + 1], failures)
          ELSE /\ pc' = "deliver"
               /\ metrics' = m
               /\ customer' = cust
               /\ custFailed' = failed
               /\ http' = Send("enterpret", "feedback", transformedData)
               /\ issuedKinds' = issuedKinds \cup {"feedback"}
               /\ UNCHANGED <<todo, cur, items, custReqs, itemsFailed, failures, prevFail>>

\* GladlyClient.fetchCustomer returned response.data: the profile of the id
\* that was asked for
CustomerOk ==
    /\ pc = "customer" /\ http.phase = "sent"
    /\ AfterCustomer(<<MkCustomer(http.arg)>>, FALSE)
    /\ UNCHANGED <<clock, stateFile, runs, batchSize, feedbackData, options, importStartDate, importEndDate,
                   allConversations, page, served, delivered, stateReads, writes,
                   stateBefore, nowAtResolve>>

\* GladlyClient.fetchCustomer, lines 163-167: status 301 with a Location
\* header ending in newId: return this.fetchCustomer(newId)
CustomerMoved(newId) ==
    /\ pc = "customer" /\ http.phase = "sent"
    /\ http' = Send("gladly", "customer", newId)
    /\ custReqs' = Min(custReqs + 1, CustReqCap)
    /\ UNCHANGED <<clock, stateFile, runs, batchSize, enrichFailed, feedbackData, pc, options, metrics, importStartDate,
                   importEndDate, allConversations, page, todo, cur, items,
                   customer, served, issuedKinds, failures, itemsFailed,
                   custFailed, delivered, stateReads, writes, stateBefore,
                   nowAtResolve, prevFail>>

\* Mutant of CustomerFail: _fetchCustomer lets the error through to the
\* loop's catch
CustomerFail_Propagates ==
    /\ pc = "customer" /\ http.phase = "sent"
    /\ EnterLoop(todo, [metrics EXCEPT !.errorsCount = @ + 1], failures)
    /\ UNCHANGED <<clock, stateFile, runs, batchSize, enrichFailed, feedbackData, options, importStartDate,
                   importEndDate, allConversations, page, served, delivered,
                   stateReads, writes, stateBefore, nowAtResolve>>

\* GladlyClient.fetchCustomer threw (any other failure): _fetchCustomer
\* catches, logs and returns null
CustomerFail ==
    /\ pc = "customer" /\ http.phase = "sent"
    /\ AfterCustomer(<<>>, TRUE)
    /\ UNCHANGED <<clock, stateFile, runs, batchSize, feedbackData, options, importStartDate, importEndDate,
                   allConversations, page, served, delivered, stateReads, writes,
                   stateBefore, nowAtResolve>>

\* Mutant of DeliverOk: the state is written after every delivery
DeliverOk_Checkpoints ==
    /\ pc = "deliver" /\ http.phase = "sent"
    /\ delivered' = Append(delivered, http.arg.id)
    /\ EnterLoop(todo, metrics, failures)
    /\ stateFile' = updateLastImportTime(stateFile, importEndDate[1], clock, TRUE)
    /\ writes' = Append(writes, [timestamp |-> importEndDate[1], written |-> TRUE])
    /\ UNCHANGED <<clock, runs, batchSize, enrichFailed, feedbackData, options, importStartDate,
                   importEndDate, allConversations, page, served, stateReads,
                   stateBefore, nowAtResolve>>

\* EnterpretClient.importFeedback returned: the record is in the destination
DeliverOk ==
    /\ pc = "deliver" /\ http.phase = "sent"
    /\ delivered' = Append(delivered, http.arg.id)
    /\ EnterLoop(todo, metrics, failures)
    /\ UNCHANGED <<clock, stateFile, runs, batchSize, enrichFailed, feedbackData, options, importStartDate, importEndDate,
                   allConversations, page, served, stateReads, writes,
                   stateBefore, nowAtResolve>>

\* Mutant of DeliverFail: the conversation whose POST failed is recorded as
\* delivered as well as counted
DeliverFail_AlsoDelivered ==
    /\ pc = "deliver" /\ http.phase = "sent"
    /\ delivered' = Append(delivered, http.arg.id)
    /\ EnterLoop(todo, [metrics EXCEPT !.errorsCount = @ + 1], failures)
    /\ UNCHANGED <<clock, stateFile, runs, batchSize, enrichFailed, feedbackData, options, importStartDate, importEndDate,
                   allConversations, page, served, stateReads, writes,
                   stateBefore, nowAtResolve>>

\* EnterpretClient.importFeedback threw (the POST failed): the loop's catch
\* counts the error
DeliverFail ==
    /\ pc = "deliver" /\ http.phase = "sent"
    /\ EnterLoop(todo, [metrics EXCEPT !.errorsCount = @ + 1], failures)
    /\ UNCHANGED <<clock, stateFile, runs, batchSize, enrichFailed, feedbackData, options, importStartDate, importEndDate,
                   allConversations, page, served, delivered, stateReads, writes,
                   stateBefore, nowAtResolve>>

\* Mutant of Finalize: the state is written whatever the error count
Finalize_AlwaysWrites ==
    /\ pc = "finalize"
    /\ \E written \in BOOLEAN :
         /\ stateFile' = updateLastImportTime(stateFile, importEndDate[1], clock, written)
         /\ writes' = Append(writes, [timestamp |-> importEndDate[1],
                                      written |-> written])
    /\ pc' = "returned"
    /\ prevFail' = IF metrics.errorsCount > 0 THEN importStartDate ELSE <<>>
    /\ UNCHANGED <<clock, runs, batchSize, enrichFailed, feedbackData, options, metrics, importStartDate, importEndDate,
                   allConversations, page, todo, cur, items, customer, http,
                   served, issuedKinds, failures, custReqs, itemsFailed,
                   custFailed, delivered, stateReads, stateBefore, nowAtResolve>>

\* import, lines 256-265: with no error the state is written with
\* importEndDate (the write may fail: updateLastImportTime then returns
\* false and import goes on); the metrics are returned
Finalize ==
    /\ pc = "finalize"
    /\ IF metrics.errorsCount = 0
       THEN \E written \in BOOLEAN :
              /\ stateFile' = updateLastImportTime(stateFile, importEndDate[1],
                                                   clock, written)
              /\ writes' = Append(writes, [timestamp |-> importEndDate[1],
                                           written |-> written])
       ELSE UNCHANGED <<stateFile, writes>>
    /\ pc' = "returned"
    /\ prevFail' = IF metrics.errorsCount > 0 THEN importStartDate ELSE <<>>
    /\ UNCHANGED <<clock, runs, batchSize, enrichFailed, feedbackData, options, metrics, importStartDate, importEndDate,
                   allConversations, page, todo, cur, items, customer, http,
                   served, issuedKinds, failures, custReqs, itemsFailed,
                   custFailed, delivered, stateReads, stateBefore, nowAtResolve>>

\* The steps of a run that need no parameter
CoreStep ==
    \/ ValidateSourceOk
    \/ ValidateSourceFail
    \/ ValidateDestOk
    \/ ValidateDestFail
    \/ Resolve
    \/ FetchPageFail
    \/ NextPage
    \/ ItemsOk
    \/ ItemsFail
    \/ CustomerOk
    \/ CustomerFail
    \/ DeliverOk
    \/ DeliverFail
    \/ Finalize

\* The rate limiting of the two APIs
RateLimitStep ==
    \/ \E header \in RetryAfterHeaders : RateLimited(header)
    \/ Replay

\* The steps of a run against a source that holds MaxConvs conversations
RunStep ==
    \/ CoreStep
    \/ FetchPageOk(MaxConvs)
    \/ \E newId \in CustomerIds : CustomerMoved(newId)

\* One import() call with any options, against APIs that never answer 429
Next ==
    \/ Tick
    \/ \E o \in Options : StartRun(o, 1)
    \/ RunStep

Spec == Init /\ [][Next]_vars

\* Every step of a run that can be taken is taken in the end: each request is
\* answered, each delay ends
FairSpec == Spec /\ WF_vars(RunStep)

\* One import() call without options, against APIs that rate-limit
HttpNext ==
    \/ Tick
    \/ StartRun(NoOptions, 1)
    \/ CoreStep
    \/ FetchPageOk(HttpConvs)
    \/ \E newId \in CustomerIds : CustomerMoved(newId)
    \/ RateLimitStep

HttpSpec == InitWith(SmallBatch) /\ [][HttpNext]_vars

\* A sequence of import() calls with any options, against APIs that never
\* answer 429 and a source without merged customers
SeqNext ==
    \/ Tick
    \/ \E o \in Options : StartRun(o, MaxRuns)
    \/ CoreStep
    \/ FetchPageOk(SeqConvs)

SeqSpec == InitWith(SmallBatch) /\ [][SeqNext]_vars

\* StateManager.resetState() called on its own, between runs: it returns
\* true
ResetState ==
    /\ pc \in Idle \cup {"reset"}
    /\ \E removed \in BOOLEAN :
         /\ resetStateReturns(stateFile, removed)
         /\ stateFile' = resetState(stateFile, removed)
    /\ pc' = "reset"
    /\ UNCHANGED <<clock, runs, batchSize, enrichFailed, feedbackData, options, metrics, importStartDate,
                   importEndDate, allConversations, page, todo, cur, items,
                   customer, http, served, issuedKinds, failures, custReqs,
                   itemsFailed, custFailed, delivered, stateReads, writes,
                   stateBefore, nowAtResolve, prevFail>>

\* One incremental import() call and resetState() calls, with a state file
\* in any condition
StateNext ==
    \/ Tick
    \/ StartRun(NoOptions, 1)
    \/ CoreStep
    \/ FetchPageOk(SeqConvs)
    \/ ResetState

StateSpec == InitFrom(SmallBatch, StateFiles) /\ [][StateNext]_vars

\* EnterpretClient.importFeedback(feedbackData) called on its own, lines
\* 59-62: the record is checked, and posted when the check passes; when the
\* check throws, the catch rethrows (lines 66-68) and no request is made
ImportFeedback(data) ==
    /\ pc = "idle" /\ feedbackData = <<>>
    /\ feedbackData' = <<data>>
    /\ IF validateFeedbackData(data)
       THEN /\ pc' = "importFeedback"
            /\ http' = Send("enterpret", "feedback", data)
            /\ issuedKinds' = issuedKinds \cup {"feedback"}
            /\ UNCHANGED failures
       ELSE /\ pc' = "aborted"
            /\ failures' = failures \cup {"data"}
            /\ UNCHANGED <<http, issuedKinds>>
    /\ UNCHANGED <<clock, stateFile, runs, batchSize, enrichFailed, options, metrics, importStartDate,
                   importEndDate, allConversations, page, todo, cur, items,
                   customer, served, custReqs, itemsFailed, custFailed,
                   delivered, stateReads, writes, stateBefore, nowAtResolve,
                   prevFail>>

\* importFeedback, lines 62-65: the POST succeeded and response.data is
\* returned
FeedbackOk ==
    /\ pc = "importFeedback" /\ http.phase = "sent"
    /\ pc' = "returned"
    /\ http' = [http EXCEPT !.phase = "done"]
    /\ delivered' = Append(delivered, http.arg.id)
    /\ UNCHANGED <<clock, stateFile, runs, batchSize, enrichFailed, feedbackData, options, metrics,
                   importStartDate, importEndDate, allConversations, page, todo,
                   cur, items, customer, served, issuedKinds, failures,
                   custReqs, itemsFailed, custFailed, stateReads, writes,
                   stateBefore, nowAtResolve, prevFail>>

\* importFeedback, lines 66-68: the POST failed and the catch rethrows
FeedbackFail ==
    /\ pc = "importFeedback" /\ http.phase = "sent"
    /\ pc' = "aborted"
    /\ http' = [http EXCEPT !.phase = "done"]
    /\ failures' = failures \cup {"post"}
    /\ UNCHANGED <<clock, stateFile, runs, batchSize, enrichFailed, feedbackData, options, metrics,
                   importStartDate, importEndDate, allConversations, page, todo,
                   cur, items, customer, served, issuedKinds, custReqs,
                   itemsFailed, custFailed, delivered, stateReads, writes,
                   stateBefore, nowAtResolve, prevFail>>

\* One importFeedback call with any record, against a destination that
\* rate-limits
FeedbackNext ==
    \/ \E data \in FeedbackRecords : ImportFeedback(data)
    \/ FeedbackOk
    \/ FeedbackFail
    \/ RateLimitStep

FeedbackSpec == Init /\ [][FeedbackNext]_vars

\* import, line 244, on its own: transformConversation(conversation, items,
\* customer) is called and returns the record (or throws)
Transform(conversation, its, cust) ==
    /\ pc = "idle"
    /\ cur' = <<conversation>>
    /\ items' = its
    /\ customer' = cust
    /\ LET transformedData == transformConversation(conversation, its, cust)
       IN feedbackData' = IF transformedData.threw THEN <<>> ELSE <<transformedData>>
    /\ UNCHANGED <<clock, stateFile, runs, pc, batchSize, enrichFailed, options, metrics,
                   importStartDate, importEndDate, allConversations, page, todo,
                   http, served, issuedKinds, failures, custReqs, itemsFailed,
                   custFailed, delivered, stateReads, writes, stateBefore,
                   nowAtResolve, prevFail>>

\* A call with another conversation or customer and the items of the call
\* before
TransformOther ==
    \E i \in ConvIds, cust \in TransformCustomers :
        Transform(MkConv(i, "ok"), items, cust)

\* A call with the conversation and customer of the call before and one more
\* item at the end of the list
TransformAppended ==
    /\ cur # <<>>
    /\ Len(items) < MaxListLen
    /\ \E it \in SourceItems : Transform(cur[1], Append(items, it), customer)

\* Calls of transformConversation with every item list of MaxListLen items at
\* most
TransformNext ==
    \/ TransformOther
    \/ TransformAppended

TransformInit == Init /\ stateFile = <<>>

TransformSpec == TransformInit /\ [][TransformNext]_vars

\* The sequences of at most n elements of S
SeqsUpTo(S, n) == UNION {[1..k -> S] : k \in 0..n}

\* The entries of a conversation's customAttributes: id and value, each
\* present or not
AttrEntries == [id : {<<>>, <<"k">>}, value : {<<>>, <<"v">>}]

\* The conversations transformConversation is called with on its own to
\* exercise its fields: with or without id, createdAt, status and agentId,
\* topicIds absent, empty or not, customAttributes absent or a list of
\* MaxAttrs entries at most
FieldConvs ==
    {[MkConv(1, "ok") EXCEPT !.hasId = h, !.createdAt = c, !.status = st,
                             !.agentId = a, !.topicIds = t,
                             !.customAttributes = ca] :
        h \in BOOLEAN, c \in {<<>>, <<ToISOString(Clock0 - 1)>>},
        st \in {<<>>, <<"OPEN">>}, a \in {<<>>, <<"agent1">>},
        t \in {<<>>, << <<>> >>, << <<"t1">> >>},
        ca \in {<<>>} \cup {<<l>> : l \in SeqsUpTo(AttrEntries, MaxAttrs)}}

\* The item lists that go with them: none, a chat message, a chat message
\* without a valid timestamp
FieldItems ==
    {<<>>,
     <<[type |-> "CHAT_MESSAGE", timestamp |-> 1]>>,
     <<[type |-> "CHAT_MESSAGE", timestamp |-> NaN]>>}

\* One call of transformConversation with any of these conversations
FieldNext ==
    /\ cur = <<>>
    /\ \E conversation \in FieldConvs, its \in FieldItems, cust \in TransformCustomers :
          Transform(conversation, its, cust)

FieldSpec == TransformInit /\ [][FieldNext]_vars

\* The items transformConversation is called with on its own to exercise the
\* TOPIC_CHANGE case: topic changes at two times, each list of topic ids
\* empty or not, and a chat message
TopicItems ==
    [type : {"TOPIC_CHANGE"}, timestamp : 1..2,
     addedTopicIds : {<<>>, <<"t1">>}, removedTopicIds : {<<>>, <<"t2">>}]
        \cup {[type |-> "CHAT_MESSAGE", timestamp |-> 1]}

\* One call of transformConversation with a list of these items
TopicNext ==
    /\ cur = <<>>
    /\ \E its \in SeqsUpTo(TopicItems, MaxTopicItems) :
          Transform(MkConv(1, "ok"), its, <<>>)

TopicSpec == TransformInit /\ [][TopicNext]_vars

\* EnterpretClient.importFeedbackBatch(feedbackItems) called on its own: the
\* argument and each element are checked, and the list is posted when the
\* checks pass; when one throws, the catch rethrows (lines 90-92) and no
\* request is made
ImportFeedbackBatch(feedbackItems) ==
    /\ pc = "idle" /\ feedbackData = <<>>
    /\ feedbackData' = <<feedbackItems>>
    /\ IF importFeedbackBatchChecks(feedbackItems)
       THEN /\ pc' = "importFeedbackBatch"
            /\ http' = Send("enterpret", "batch", [items |-> feedbackItems[1]])
            /\ issuedKinds' = issuedKinds \cup {"batch"}
            /\ UNCHANGED failures
       ELSE /\ pc' = "aborted"
            /\ failures' = failures \cup {"data"}
            /\ UNCHANGED <<http, issuedKinds>>
    /\ UNCHANGED <<clock, stateFile, runs, batchSize, enrichFailed, options, metrics, importStartDate,
                   importEndDate, allConversations, page, todo, cur, items,
                   customer, served, custReqs, itemsFailed, custFailed,
                   delivered, stateReads, writes, stateBefore, nowAtResolve,
                   prevFail>>

\* importFeedbackBatch, lines 86-89: the POST succeeded and response.data is
\* returned
BatchOk ==
    /\ pc = "importFeedbackBatch" /\ http.phase = "sent"
    /\ pc' = "returned"
    /\ http' = [http EXCEPT !.phase = "done"]
    /\ delivered' = delivered \o [i \in 1..Len(http.arg.items) |-> http.arg.items[i].id]
    /\ UNCHANGED <<clock, stateFile, runs, batchSize, enrichFailed, feedbackData, options, metrics,
                   importStartDate, importEndDate, allConversations, page, todo,
                   cur, items, customer, served, issuedKinds, failures,
                   custReqs, itemsFailed, custFailed, stateReads, writes,
                   stateBefore, nowAtResolve, prevFail>>

\* importFeedbackBatch, lines 90-92: the POST failed and the catch rethrows
BatchFail ==
    /\ pc = "importFeedbackBatch" /\ http.phase = "sent"
    /\ pc' = "aborted"
    /\ http' = [http EXCEPT !.phase = "done"]
    /\ failures' = failures \cup {"post"}
    /\ UNCHANGED <<clock, stateFile, runs, batchSize, enrichFailed, feedbackData, options, metrics,
                   importStartDate, importEndDate, allConversations, page, todo,
                   cur, items, customer, served, issuedKinds, custReqs,
                   itemsFailed, custFailed, delivered, stateReads, writes,
                   stateBefore, nowAtResolve, prevFail>>

\* The arguments importFeedbackBatch may be called with: none, or a list of
\* MaxBatch records at most
BatchArguments ==
    {<<>>} \cup {<<list>> : list \in SeqsUpTo(FeedbackRecords, MaxBatch)}

\* One importFeedbackBatch call with any argument, against a destination that
\* rate-limits
BatchNext ==
    \/ \E feedbackItems \in BatchArguments : ImportFeedbackBatch(feedbackItems)
    \/ BatchOk
    \/ BatchFail
    \/ RateLimitStep

BatchSpec == Init /\ [][BatchNext]_vars

\* The k-th entry of a profile's emails or phones: flagged primary or not,
\* with or without a normalized value, always with an original value
ContactEntry(k, primary, hasNormalized) ==
    [primary |-> primary,
     normalized |-> IF hasNormalized THEN << <<"normalized", k>> >> ELSE <<>>,
     original |-> <<"original", k>>]

\* The lists of MaxContacts entries at most (an absent list and an empty one
\* are both <<>>)
ContactLists ==
    UNION {{[k \in 1..n |-> ContactEntry(k, f[k][1], f[k][2])] :
               f \in [1..n -> BOOLEAN \X BOOLEAN]} : n \in 0..MaxContacts}

\* The customer profiles transformConversation is called with on its own to
\* exercise the mapping of emails and phones
ContactProfiles ==
    {[MkCustomer("c1") EXCEPT !.emails = es, !.phones = ps] :
        es \in ContactLists, ps \in ContactLists}

\* One call of transformConversation with any of these profiles
CustomerNext ==
    /\ cur = <<>>
    /\ \E cust \in ContactProfiles : Transform(MkConv(1, "ok"), <<>>, <<cust>>)

CustomerSpec == TransformInit /\ [][CustomerNext]_vars

\* The options of a run that gives a limit or none, and nothing else
LimitOptions == {[NoOptions EXCEPT !.limit = l] : l \in 0..PageLimit}

\* One import() call with or without --limit, against a source that holds
\* PageConvs conversations and never answers 429
PageNext ==
    \/ \E o \in LimitOptions : StartRun(o, 1)
    \/ CoreStep
    \/ FetchPageOk(PageConvs)

PageSpec == Init /\ [][PageNext]_vars

-----------------------------------------------------------------------------
(* Properties *)

\* The end date the caller asked for: the explicit endDate, else the clock
\* when the window was resolved
ResolvedEnd ==
    IF options.endDate # <<>> THEN options.endDate[1].iso ELSE nowAtResolve[1]

\* C1: a run that reaches Finalize with errorsCount 0 calls the state write
\* once, with the resolved end date, and the file then holds that date
\* (unless the write itself failed); a run that reaches Finalize with
\* errorsCount >= 1 makes no write and leaves the file as it was before the
\* run.
C1_StateAdvancesOnlyOnZeroErrors ==
    pc = "returned" =>
        IF metrics.errorsCount = 0
        THEN /\ Len(writes) = 1
             /\ writes[1].timestamp = ResolvedEnd
             /\ writes[1].written =>
                    /\ stateFile # <<>>
                    /\ stateFile[1].lastImportTime = [iso |-> ResolvedEnd]
        ELSE /\ writes = <<>>
             /\ stateFile = stateBefore

\* C1, its case: a zero-error run without --end-date returned after the clock
\* moved on, and the file holds the end date taken at resolution
C1_Witness ==
    /\ pc = "returned"
    /\ metrics.errorsCount = 0
    /\ metrics.conversationsCount > 0
    /\ options.endDate = <<>>
    /\ clock > nowAtResolve[1]
    /\ writes[1].written
    /\ stateFile # stateBefore

\* C2: a failure while one entry of the list is handled never aborts the run:
\* import is never left through its outer catch while the loop is at an entry.
C2_EntryFailureNeverAborts ==
    ~(pc = "aborted" /\ cur # <<>>)

\* C3: the stored lastImportTime never decreases: every write stores a value
\* greater than or equal to the value stored before it.
C3_LastImportTimeNeverDecreases ==
    [][(stateFile # <<>> /\ stateFile' # <<>>)
          => stateFile'[1].lastImportTime.iso >= stateFile[1].lastImportTime.iso]_vars

\* C4: after a run that ended with errorsCount >= 1, the next incremental run
\* without date overrides resolves a start no later than the failed run's
\* start.
C4_FailedWindowRetried ==
    (/\ pc \notin Idle
     /\ prevFail # <<>>
     /\ importStartDate # <<>>
     /\ ~options.isFullImport
     /\ options.startDate = <<>>
     /\ options.endDate = <<>>)
        => importStartDate[1] <= prevFail[1]

\* C5: when validateConnection fails on the source or on the destination,
\* import aborts, no listing, item, customer or delivery request is issued in
\* the run, and the state is neither read nor written.
C5_ValidationFailureTouchesNothing ==
    (failures \cap {"source", "dest"} # {}) =>
        /\ pc = "aborted"
        /\ issuedKinds \subseteq {"org", "status"}
        /\ stateReads = 0
        /\ writes = <<>>
        /\ stateFile = stateBefore

\* C5, its case: the destination's validation failed after the source's
\* succeeded
C5_Witness ==
    /\ pc = "aborted"
    /\ "dest" \in failures
    /\ issuedKinds = {"org", "status"}

\* C6: when the listing fails on any page, the run aborts: no conversation of
\* any page, retrieved or not, is fetched, transformed or delivered, and the
\* state is left unchanged.
C6_ListingFailureAborts ==
    ("listing" \in failures) =>
        /\ pc = "aborted"
        /\ issuedKinds \cap {"items", "customer", "feedback"} = {}
        /\ delivered = <<>>
        /\ metrics = ZeroMetrics
        /\ writes = <<>>
        /\ stateFile = stateBefore

\* C6, its case: page 2 failed after page 1 brought a full page
C6_Witness ==
    /\ pc = "aborted"
    /\ "listing" \in failures
    /\ page = 2
    /\ Len(allConversations) = BatchSize

\* The answer to a request of the current entry arrives and import moves on
AnswerAt(position) == pc = position /\ (pc' # position \/ cur' # cur)

\* C7: when the item fetch fails the pipeline goes on to the customer fetch
\* with an empty item list; when the customer fetch fails it goes on with an
\* absent customer; a conversation with its required fields is then
\* transformed and posted with that empty content or absent customer, and in
\* neither case is an error counted or the loop left.
C7_EnrichmentFailureDegrades ==
    [][/\ AnswerAt("items") =>
            /\ pc' = "customer"
            /\ cur' = cur
            /\ metrics' = metrics
            /\ itemsFailed' => items' = <<>>
       /\ (AnswerAt("customer") /\ cur[1].status # <<>>) =>
            /\ pc' = "deliver"
            /\ cur' = cur
            /\ metrics' = metrics
            /\ http'.kind = "feedback"
            /\ http'.arg.id = <<"gladly_", cur[1].id>>
            /\ itemsFailed' => http'.arg.content = <<>>
            /\ custFailed' => (customer' = <<>> /\ http'.arg.customer = <<>>)]_vars

\* C7, its case: both fetches of a conversation failed and its record, with
\* no content and no customer, is on its way to the destination
C7_Witness ==
    /\ pc = "deliver"
    /\ itemsFailed
    /\ custFailed
    /\ http.arg.content = <<>>
    /\ http.arg.customer = <<>>

C9_MovedRetriedOnce ==
    custReqs <= 2

\* C10: every import run eventually finishes: it returns its metrics or
\* aborts with an error.
C10_RunTerminates ==
    (pc \notin Idle) ~> (pc \in {"returned", "aborted"})

\* C11: a non-429 failure of a network call of a run (listing, item fetch,
\* customer fetch or delivery) is treated as failed only after the call has
\* been retried maxRetries times, that is after 1 + maxRetries attempts.
C11_FailureRetriedMaxRetries ==
    [][(\/ "listing" \in failures' /\ "listing" \notin failures
        \/ itemsFailed' /\ ~itemsFailed
        \/ custFailed' /\ ~custFailed
        \/ pc = "deliver" /\ metrics'.errorsCount > metrics.errorsCount)
          => http.issued >= 1 + maxRetries]_vars

\* C12: the window start is the explicit start date if one is given; else
\* the epoch 2010-01-01 (day 0) for a full import; else the stored
\* lastImportTime if the state file has one; else 30 days before now.  The
\* state is not read when an explicit start date or the full-import flag is
\* given.  The window end is the explicit end date if given, else now.
C12_WindowPrecedence ==
    importStartDate # <<>> =>
        /\ importStartDate[1] =
              IF options.startDate # <<>> THEN options.startDate[1].iso
              ELSE IF options.isFullImport THEN 0
              ELSE IF stateBefore # <<>> THEN stateBefore[1].lastImportTime.iso
              ELSE nowAtResolve[1] - 30
        /\ (options.startDate # <<>> \/ options.isFullImport) => stateReads = 0
        /\ importEndDate[1] = ResolvedEnd

\* C12, its case: a full import without a start date, with a state file
\* present, starts at the epoch and does not read the state
C12_Witness ==
    /\ options.isFullImport
    /\ options.startDate = <<>>
    /\ stateBefore # <<>>
    /\ importStartDate = <<0>>
    /\ importEndDate = <<clock>>
    /\ stateReads = 0

\* The for..of loop of import has been entered (or skipped, the list being
\* empty)
LoopEntered ==
    \/ pc \in {"items", "customer", "deliver", "finalize", "returned"}
    \/ pc = "aborted" /\ "loop" \in failures

\* C13: with a limit L >= 1 a page is asked for only while fewer than L
\* conversations are accumulated, and the list handed to the loop holds the
\* first L retrieved, in retrieval order, when at least L were retrieved, and
\* all of them otherwise; without a limit every page before the last was full,
\* the last one was not, and the list holds all that was retrieved.
C13_LimitBoundsList ==
    LET L == options.limit
        n == Len(allConversations)
    IN /\ (pc \in {"paging", "pageDelay"}) =>
            /\ L >= 1 => n < L
            /\ n = served
            /\ n = (page - 1) * batchSize
            /\ pc = "pageDelay" => page >= 2
       /\ LoopEntered =>
            /\ \A i \in 1..n : allConversations[i].id = i
            /\ metrics.conversationsCount = n
            /\ L >= 1 => /\ n <= L
                         /\ served >= L => n = L
                         /\ served < L => n = served
                         /\ served - n < batchSize
            /\ L = 0 => /\ n = served
                        /\ served >= (page - 2) * batchSize
                        /\ served < (page - 1) * batchSize

\* C13, its case: with limit 3 and pages of 2 the second page brought the
\* count to 4 and the loop got the first 3
C13_Witness ==
    /\ LoopEntered
    /\ options.limit = 3
    /\ batchSize = 2
    /\ page = 3
    /\ served = 4
    /\ Len(allConversations) = 3

\* C14: a run writes the state at most once, and only once every
\* conversation of the list has been delivered or counted as an error: while
\* the loop is at a conversation no write has been made and the file is as
\* the run found it.  Conversations are handled one after another: while the
\* loop awaits a request of one conversation, every conversation before it
\* has been delivered or counted, and none after it has been touched.
C14_SingleWriteAfterLoop ==
    /\ Len(writes) <= 1
    /\ writes # <<>> =>
          /\ pc = "returned"
          /\ todo = <<>>
          /\ Len(delivered) + metrics.errorsCount = metrics.conversationsCount
    /\ (runs >= 1 /\ pc # "returned") =>
          /\ writes = <<>>
          /\ stateFile = stateBefore
    /\ (pc \in {"items", "customer", "deliver"}) =>
          /\ Len(delivered) + metrics.errorsCount
                = metrics.conversationsCount - Len(todo) - 1
          /\ cur # <<>>
          /\ http.phase = "sent"
          /\ http.kind = (IF pc = "deliver" THEN "feedback" ELSE pc)
          /\ pc = "items" => http.arg = cur[1].id
          /\ pc = "deliver" => http.arg.id = <<"gladly_", cur[1].id>>

\* C14, its case: a run delivered two conversations one after the other and
\* then wrote the state
C14_Witness ==
    /\ pc = "returned"
    /\ Len(delivered) = 2
    /\ Len(writes) = 1
    /\ stateFile # stateBefore

\* C15: importFeedback called with a record lacking id, source or timestamp,
\* or lacking both content and metadata, fails without any request being
\* issued; called with any other record it issues one POST of that record,
\* and one more for each 429 answer.
C15_LocalCheckBeforePost ==
    feedbackData # <<>> =>
        LET d == feedbackData[1]
            lacking == \/ d.id = <<>>
                       \/ d.source = ""
                       \/ d.timestamp = <<>>
                       \/ d.content = <<>> /\ d.metadata = <<>>
        IN /\ lacking =>
                /\ pc = "aborted"
                /\ failures = {"data"}
                /\ http = HttpIdle
                /\ issuedKinds = {}
                /\ delivered = <<>>
           /\ ~lacking =>
                /\ "data" \notin failures
                /\ issuedKinds = {"feedback"}
                /\ <<http.client, http.kind, http.arg>> = <<"enterpret", "feedback", d>>
                /\ http.phase \in {"sent", "done"} => http.issued = http.n429 + 1
                /\ http.phase = "waiting" => http.issued = http.n429
                /\ pc = "returned" => delivered = <<d.id>>

\* C15, its case: a record with id, source and timestamp but neither content
\* nor metadata was refused without a request
C15_Witness ==
    /\ feedbackData # <<>>
    /\ feedbackData[1].id # <<>>
    /\ feedbackData[1].source # ""
    /\ feedbackData[1].timestamp # <<>>
    /\ feedbackData[1].content = <<>>
    /\ feedbackData[1].metadata = <<>>
    /\ pc = "aborted"
    /\ issuedKinds = {}

\* C16: the record's id is the fixed prefix followed by the conversation's
\* id, whatever the items and the customer: of two successive calls, the
\* records have the same id exactly when the conversations have the same id.
C16_IdFromConversationIdOnly ==
    /\ [](feedbackData # <<>> => feedbackData[1].id = <<"gladly_", cur[1].id>>)
    /\ [][(feedbackData # <<>> /\ feedbackData' # <<>>) =>
             ((feedbackData'[1].id = feedbackData[1].id) <=> (cur'[1].id = cur[1].id))]_vars

\* C16, its case: conversation 2 was transformed with items and a customer
C16_Witness ==
    /\ feedbackData # <<>>
    /\ cur[1].id = 2
    /\ items # <<>>
    /\ customer # <<>>
    /\ feedbackData[1].id = <<"gladly_", 2>>

\* The content types of a sequence of items or blocks, in order
TypesOf(seq) == [k \in 1..Len(seq) |-> seq[k].type]

\* The items of the list that have a case in the switch, in input order
Shown(its) ==
    LET HasCase(it) == it.type \in {"CHAT_MESSAGE", "EMAIL", "SMS", "PHONE_CALL",
                                    "CONVERSATION_NOTE", "CONVERSATION_STATUS_CHANGE",
                                    "CUSTOMER_ACTIVITY"}
    IN SelectSeq(its, HasCase)

\* C17: the blocks of the content are in ascending order of the items'
\* timestamps whatever the order of the list, and the blocks of one timestamp
\* are those of the list's items of that timestamp, in the list's order.
C17_ContentInTimestampOrder ==
    feedbackData # <<>> =>
        LET content == feedbackData[1].content
            shown == Shown(items)
        IN /\ \A i, j \in 1..Len(content) : i < j => content[i].ts <= content[j].ts
           /\ Len(content) = Len(shown)
           /\ \A t \in {shown[i].timestamp : i \in 1..Len(shown)} :
                 LET BlockAt(b) == b.ts = t
                     ItemAt(it) == it.timestamp = t
                 IN TypesOf(SelectSeq(content, BlockAt)) = TypesOf(SelectSeq(shown, ItemAt))

\* C17, its case: two chat items given as T2 then T1 are rendered T1 first
C17_Witness ==
    /\ feedbackData # <<>>
    /\ items = <<[type |-> "CHAT_MESSAGE", timestamp |-> 2],
                 [type |-> "CHAT_MESSAGE", timestamp |-> 1]>>
    /\ feedbackData[1].content = <<[ts |-> 1, type |-> "CHAT_MESSAGE"],
                                   [ts |-> 2, type |-> "CHAT_MESSAGE"]>>

Channels == {"chat", "email", "sms", "social", "messaging", "voice", "other"}

\* C18: the channel of the record is one whose item count is maximal, the
\* items being counted through the channel table with unknown types counted
\* as other; a channel with strictly the highest count is the result whatever
\* the order of the list.
C18_ChannelHasMaximalCount ==
    feedbackData # <<>> =>
        LET channel == feedbackData[1].channel
        IN /\ channel \in Channels
           /\ \A c \in Channels : ChannelCount(items, channel) >= ChannelCount(items, c)
           /\ \A c \in Channels :
                 (\A d \in Channels \ {c} : ChannelCount(items, c) > ChannelCount(items, d))
                     => channel = c

\* C18, its case: [email, chat, chat] gives chat
C18_Witness ==
    /\ feedbackData # <<>>
    /\ TypesOf(items) = <<"EMAIL", "CHAT_MESSAGE", "CHAT_MESSAGE">>
    /\ feedbackData[1].channel = "chat"

\* The highest item count of a channel
MaxCount(its) ==
    CHOOSE m \in 0..Len(its) :
        /\ \E c \in Channels : ChannelCount(its, c) = m
        /\ \A c \in Channels : ChannelCount(its, c) <= m

\* The channels that have the highest count
Tied(its) == {c \in Channels : ChannelCount(its, c) = MaxCount(its)}

\* The position of the item that brings channel c to m items (m >= 1)
ReachedAt(its, c, m) ==
    CHOOSE k \in 1..Len(its) :
        /\ ChannelCount(SubSeq(its, 1, k), c) = m
        /\ ChannelCount(SubSeq(its, 1, k - 1), c) < m

\* C19 as stated: of the channels that tie for the highest count, the one
\* that was first to reach that count, the items taken in input order, is
\* the channel of the record.
C19_FirstToReachMaxWins ==
    (feedbackData # <<>> /\ items # <<>> /\ Cardinality(Tied(items)) >= 2) =>
        \A d \in Tied(items) :
            ReachedAt(items, feedbackData[1].channel, MaxCount(items))
                <= ReachedAt(items, d, MaxCount(items))

\* C19 amended: of the channels that tie for the highest count, the one whose
\* first item comes earliest in the list is the channel of the record.
C19_FirstSeenTiedWins ==
    (feedbackData # <<>> /\ items # <<>> /\ Cardinality(Tied(items)) >= 2) =>
        /\ feedbackData[1].channel \in Tied(items)
        /\ \A d \in Tied(items) :
              ReachedAt(items, feedbackData[1].channel, 1) <= ReachedAt(items, d, 1)

\* C19, its case: in [email, chat, chat, email] chat is first to have two
\* items and email is seen first: the channel is email
C19_Witness ==
    /\ feedbackData # <<>>
    /\ TypesOf(items) = <<"EMAIL", "CHAT_MESSAGE", "CHAT_MESSAGE", "EMAIL">>
    /\ feedbackData[1].channel = "email"

\* C20: with an empty item list the record has channel other and the empty
\* content; the content is empty as well when no item of the list has a type
\* with a case in the switch.
C20_EmptyItemsGiveOtherAndNoContent ==
    feedbackData # <<>> =>
        /\ items = <<>> => /\ feedbackData[1].channel = "other"
                           /\ feedbackData[1].content = <<>>
        /\ (\A i \in 1..Len(items) :
               items[i].type \notin {"CHAT_MESSAGE", "EMAIL", "SMS", "PHONE_CALL",
                                     "CONVERSATION_NOTE", "TOPIC_CHANGE",
                                     "CONVERSATION_STATUS_CHANGE", "CUSTOMER_ACTIVITY"})
              => feedbackData[1].content = <<>>

\* C20, its case: a list of two tweets gives the empty content (and the
\* channel social)
C20_Witness ==
    /\ feedbackData # <<>>
    /\ TypesOf(items) = <<"TWITTER", "TWITTER">>
    /\ feedbackData[1].content = <<>>
    /\ feedbackData[1].channel = "social"

\* C21: in every record each of agent, customer, tags and customAttributes
\* is absent or has a value that is not empty: tags is never the empty list
\* and customAttributes never the mapping without keys.
C21_OptionalFieldsAbsentOrNonEmpty ==
    feedbackData # <<>> =>
        LET r == feedbackData[1]
        IN /\ r.agent = <<>> \/ r.agent[1].id # ""
           /\ r.customer = <<>> \/ r.customer[1].id # ""
           /\ r.tags = <<>> \/ r.tags[1] # <<>>
           /\ r.customAttributes = <<>> \/ DOMAIN r.customAttributes[1] # {}

\* C22: transformConversation returns a record exactly when the conversation
\* has its required fields (id and status), whatever the items and the
\* customer, and raises an error otherwise.
C22_FailsOnlyOnRequiredFields ==
    cur # <<>> =>
        ((feedbackData # <<>>) <=> (cur[1].hasId /\ cur[1].status # <<>>))

\* The value the record must carry for a list of emails or phones: that of
\* the first entry flagged primary, or of the first entry when none is
\* flagged; its normalized value when it has one, else its original value
ExpectedContact(entries) ==
    IF entries = <<>> THEN <<>>
    ELSE LET flagged == {i \in 1..Len(entries) : entries[i].primary}
             k == IF flagged = {} THEN 1
                  ELSE CHOOSE i \in flagged : \A j \in flagged : i <= j
         IN IF entries[k].normalized # <<>>
            THEN << <<"normalized", k>> >>
            ELSE << <<"original", k>> >>

\* C23: the record's customer email is the value of the first email flagged
\* primary, or of the first email when none is flagged, normalized when the
\* entry has a normalized value and original otherwise; the same holds,
\* separately, for the phone.
C23_PrimaryContactPicked ==
    (feedbackData # <<>> /\ customer # <<>>) =>
        /\ feedbackData[1].customer[1].email = ExpectedContact(customer[1].emails)
        /\ feedbackData[1].customer[1].phone = ExpectedContact(customer[1].phones)

\* C23, its case: of two emails only the second is primary, and the record
\* carries the second one's value; the profile has no phone
C23_Witness ==
    /\ feedbackData # <<>>
    /\ customer # <<>>
    /\ Len(customer[1].emails) = 2
    /\ ~customer[1].emails[1].primary
    /\ customer[1].emails[2].primary
    /\ customer[1].emails[2].normalized = <<>>
    /\ feedbackData[1].customer[1].email = << <<"original", 2>> >>
    /\ feedbackData[1].customer[1].phone = <<>>

\* The files that hold a lastImportTime the importer can read
HoldsLastImportTime(file) ==
    /\ file # <<>>
    /\ DOMAIN file[1] = {"lastImportTime", "updatedAt"}

\* C24: getLastImportTime returns absent for a state file that is missing,
\* unreadable, not valid JSON or without lastImportTime, and the stored value
\* otherwise; an incremental run that gets absent starts LookbackDays before
\* now, and resolving the window never aborts the run.
C24_StateReadFailsSoft ==
    /\ [](/\ getLastImportTime(stateFile) =
               IF HoldsLastImportTime(stateFile)
               THEN <<stateFile[1].lastImportTime>> ELSE <<>>
          /\ (importStartDate # <<>>) =>
               importStartDate[1] =
                   IF HoldsLastImportTime(stateBefore)
                   THEN stateBefore[1].lastImportTime.iso
                   ELSE nowAtResolve[1] - LookbackDays)
    /\ [][pc = "resolve" => pc' \in {"resolve", "paging"}]_vars

\* C24, its case: the state file is not valid JSON and the run has gone on to
\* request the first page of the default window
C24_Witness ==
    /\ stateBefore = <<[invalidJson |-> TRUE]>>
    /\ pc = "paging"
    /\ importStartDate = <<nowAtResolve[1] - LookbackDays>>

\* C26: once resetState has returned success, getLastImportTime returns
\* absent.
C26_ResetLeavesNoState ==
    pc = "reset" => getLastImportTime(stateFile) = <<>>

\* C25: when the state write of a run without errors fails, the call returns
\* false, the state file keeps what it held, and import returns its metrics
\* unchanged, with no error counted.
C25_FailedWriteIsNotAFailure ==
    /\ []((pc = "returned" /\ writes # <<>> /\ ~writes[Len(writes)].written) =>
            /\ stateFile = stateBefore
            /\ metrics.errorsCount = 0
            /\ failures = {})
    /\ [][(pc = "finalize" /\ writes' # writes /\ ~writes'[Len(writes')].written) =>
            /\ pc' = "returned"
            /\ stateFile' = stateFile
            /\ metrics' = metrics]_vars

\* C25, its case: a run that found a stored time and delivered a conversation
\* has returned after a failed write
C25_Witness ==
    /\ pc = "returned"
    /\ writes # <<>>
    /\ ~writes[1].written
    /\ stateBefore # <<>>
    /\ stateFile = stateBefore
    /\ delivered # <<>>

\* A record that _validateFeedbackData must refuse
Lacking(d) ==
    \/ d.id = <<>>
    \/ d.source = ""
    \/ d.timestamp = <<>>
    \/ d.content = <<>> /\ d.metadata = <<>>

\* C27: importFeedbackBatch called with no list, an empty list or a list with
\* an element that lacks a required field fails without any request being
\* issued; called with any other list it issues one batch POST carrying all
\* the elements in their order, and one more for each 429 answer.
C27_BatchCheckedBeforePost ==
    feedbackData # <<>> =>
        LET arg == feedbackData[1]
            refused == \/ arg = <<>>
                       \/ arg[1] = <<>>
                       \/ \E i \in 1..Len(arg[1]) : Lacking(arg[1][i])
        IN /\ refused =>
                /\ pc = "aborted"
                /\ failures = {"data"}
                /\ http = HttpIdle
                /\ issuedKinds = {}
                /\ delivered = <<>>
           /\ ~refused =>
                /\ "data" \notin failures
                /\ issuedKinds = {"batch"}
                /\ <<http.client, http.kind>> = <<"enterpret", "batch">>
                /\ http.arg.items = arg[1]
                /\ http.phase \in {"sent", "done"} => http.issued = http.n429 + 1
                /\ http.phase = "waiting" => http.issued = http.n429
                /\ pc = "returned" => Len(delivered) = Len(arg[1])

\* C27, its case: a list of two whose first element is complete and whose
\* second lacks its timestamp was refused without a request
C27_Witness ==
    /\ feedbackData # <<>>
    /\ feedbackData[1] # <<>>
    /\ Len(feedbackData[1][1]) = 2
    /\ ~Lacking(feedbackData[1][1][1])
    /\ feedbackData[1][1][2].timestamp = <<>>
    /\ pc = "aborted"
    /\ issuedKinds = {}

\* The number of blocks of the content with this timestamp and this label
BlocksOf(content, t, label) ==
    Cardinality({k \in 1..Len(content) : content[k] = [ts |-> t, type |-> label]})

\* The number of topic changes of the list with this timestamp whose added
\* list is, or is not, empty, and the same for the removed list
TopicChangesOf(its, t, hasAdded, hasRemoved) ==
    Cardinality({k \in 1..Len(its) :
                    /\ its[k].type = "TOPIC_CHANGE"
                    /\ its[k].timestamp = t
                    /\ (its[k].addedTopicIds # <<>>) = hasAdded
                    /\ (its[k].removedTopicIds # <<>>) = hasRemoved})

\* C28: a topic change gives one removed line when it has removed topic ids,
\* with or without added ones, one added line when it has added topic ids
\* only, and nothing when it has neither: at each timestamp the content has
\* as many removed lines and added lines as the list has such items, and no
\* other block but those of the chat messages.
C28_TopicChangeRendersOneLine ==
    feedbackData # <<>> =>
        LET content == feedbackData[1].content
            chats == Cardinality({k \in 1..Len(items) : items[k].type = "CHAT_MESSAGE"})
            Removed(t) == TopicChangesOf(items, t, TRUE, TRUE)
                              + TopicChangesOf(items, t, FALSE, TRUE)
            Added(t) == TopicChangesOf(items, t, TRUE, FALSE)
        IN /\ \A t \in 1..2 :
                /\ BlocksOf(content, t, "TOPICS REMOVED") = Removed(t)
                /\ BlocksOf(content, t, "TOPICS ADDED") = Added(t)
           /\ Len(content) = chats + Removed(1) + Removed(2) + Added(1) + Added(2)

\* C28, its case: the only item is a topic change with added and removed
\* topic ids, and the content is the removed line alone
C28_Witness ==
    /\ feedbackData # <<>>
    /\ Len(items) = 1
    /\ items[1].type = "TOPIC_CHANGE"
    /\ items[1].addedTopicIds # <<>>
    /\ items[1].removedTopicIds # <<>>
    /\ feedbackData[1].content = <<[ts |-> items[1].timestamp, type |-> "TOPICS REMOVED"]>>

\* C29: the listing request in flight asks for the page after the full pages
\* received so far, with the run's window and page size; page 1 is asked for
\* when the window is resolved, and a further page only after a full page
\* that left the limit unreached and after the delay between pages.
C29_PagesInOrderWithDelay ==
    /\ [](pc = "paging" =>
            /\ <<http.client, http.kind, http.phase>> = <<"gladly", "list", "sent">>
            /\ http.arg = [startDate |-> ToISOString(importStartDate[1]),
                           endDate |-> ToISOString(importEndDate[1]),
                           page |-> page, pageSize |-> batchSize]
            /\ served = (page - 1) * batchSize)
    /\ [][(pc # "paging" /\ pc' = "paging") =>
            \/ pc = "resolve" /\ page' = 1
            \/ pc = "pageDelay" /\ http.wait = PageDelayMs /\ page' = page]_vars
    /\ [][(pc = "paging" /\ pc' = "pageDelay") =>
            /\ page' = http.arg.page + 1
            /\ served' - served >= batchSize
            /\ options.limit = 0 \/ served' < options.limit
            /\ http'.wait = PageDelayMs
            /\ <<importStartDate', importEndDate', batchSize'>>
                   = <<importStartDate, importEndDate, batchSize>>]_vars
    /\ [][(pc = "paging" /\ pc' # "paging") => page' = page + 1 \/ pc' = "aborted"]_vars

\* C29, its case: after a full first page and the delay, page 2 is asked for
C29_Witness ==
    /\ pc = "paging"
    /\ page = 2
    /\ http.arg.page = 2
    /\ served = batchSize

\* C30: once the loop is over, the conversations delivered and the errors
\* counted add up to the conversations of the list, the delivered ones are
\* conversations of the list in the list's order, and none is delivered twice.
C30_EachConversationHandledOnce ==
    (pc \in {"finalize", "returned"}) =>
        /\ metrics.conversationsCount = Len(allConversations)
        /\ Len(delivered) + metrics.errorsCount = metrics.conversationsCount
        /\ \A k \in 1..Len(delivered) :
              \E i \in 1..Len(allConversations) :
                 delivered[k] = <<"gladly_", allConversations[i].id>>
        /\ \A j, k \in 1..Len(delivered) : j < k => delivered[j][2] < delivered[k][2]

\* C30, its case: of two conversations the first was counted as an error and
\* the second delivered
C30_Witness ==
    /\ pc = "returned"
    /\ metrics.conversationsCount = 2
    /\ metrics.errorsCount = 1
    /\ delivered = <<<<"gladly_", allConversations[2].id>>>>

\* C31: a failed items fetch or customer fetch counts no error (at the
\* customer step an error is counted only for a conversation the transformer
\* refuses): the
\* conversation is delivered with empty content, or without a customer; a
\* run that delivered every conversation of its list ends with errorsCount 0
\* whatever fetch failed, and writes its end date to the state file.
C31_EnrichmentFailuresNotCounted ==
    /\ [](/\ pc = "deliver" =>
               /\ itemsFailed => (http.arg.content = <<>> /\ cur[1].id \in enrichFailed)
               /\ custFailed => (http.arg.customer = <<>> /\ cur[1].id \in enrichFailed)
          /\ (pc \in {"finalize", "returned"}
                 /\ Len(delivered) = metrics.conversationsCount) =>
               metrics.errorsCount = 0
          /\ (pc = "returned" /\ metrics.errorsCount = 0) =>
               /\ Len(writes) = 1
               /\ writes[1].timestamp = importEndDate[1]
               /\ writes[1].written =>
                    /\ stateFile # <<>>
                    /\ stateFile[1].lastImportTime = ToISOString(importEndDate[1]))
    /\ [][pc = "items" => metrics' = metrics]_vars
    /\ [][(pc = "customer" /\ metrics' # metrics) => cur[1].status = <<>>]_vars

\* C31, its case: the fetches of a conversation failed, the run delivered it
\* all the same, counted no error and moved the stored time to its end date
C31_Witness ==
    /\ pc = "returned"
    /\ enrichFailed # {}
    /\ metrics.errorsCount = 0
    /\ Len(delivered) = metrics.conversationsCount
    /\ writes # <<>> /\ writes[1].written
    /\ stateFile # <<>>
    /\ stateFile[1].lastImportTime = ToISOString(importEndDate[1])
    /\ stateFile # stateBefore

\* C32: a state write that succeeds stores the run's end date, nothing
\* touches the file until the next run starts, and an incremental run without
\* start date that finds a stored time starts its window at that time: the
\* window of the run after a successful one starts where that one ended.
C32_NextWindowStartsAtStoredEnd ==
    /\ []((/\ importStartDate # <<>>
           /\ ~options.isFullImport
           /\ options.startDate = <<>>
           /\ stateBefore # <<>>) =>
             ToISOString(importStartDate[1]) = stateBefore[1].lastImportTime)
    /\ [][(pc = "finalize" /\ writes' # writes /\ writes'[Len(writes')].written) =>
             /\ stateFile' # <<>>
             /\ stateFile'[1].lastImportTime = ToISOString(importEndDate[1])]_vars
    /\ [][(pc \in Idle /\ pc' \notin Idle) => stateBefore' = stateFile]_vars
    /\ [][pc # "finalize" => stateFile' = stateFile]_vars

\* C32, its case: the first run ended at an end date given by the caller and
\* wrote it, and the second run, incremental, asks for the window that starts
\* at that date
C32_Witness ==
    /\ runs = 2
    /\ pc = "paging"
    /\ ~options.isFullImport
    /\ options.startDate = <<>>
    /\ stateBefore # <<>>
    /\ stateBefore[1].lastImportTime = ToISOString(Clock0 - 2)
    /\ stateBefore[1].updatedAt.iso >= Clock0
    /\ importStartDate = <<Clock0 - 2>>
    /\ http.arg.startDate = ToISOString(Clock0 - 2)

\* C33: the record transformConversation returns for a conversation with id,
\* createdAt and status has id, source, timestamp and metadata, whatever the
\* items and the customer, and so is one that _validateFeedbackData accepts.
C33_RecordPassesLocalValidation ==
    (/\ cur # <<>>
     /\ cur[1].hasId /\ cur[1].createdAt # <<>> /\ cur[1].status # <<>>
     /\ feedbackData # <<>>) =>
        /\ feedbackData[1].id = <<"gladly_", cur[1].id>>
        /\ feedbackData[1].source = "Gladly"
        /\ feedbackData[1].timestamp = cur[1].createdAt
        /\ feedbackData[1].metadata # <<>>
        /\ ~Lacking(feedbackData[1])

\* C33, its case: a conversation with the three fields, no items and no
\* customer gave a record with empty content, which passes on its metadata
C33_Witness ==
    /\ cur # <<>>
    /\ cur[1].hasId /\ cur[1].createdAt # <<>> /\ cur[1].status # <<>>
    /\ items = <<>>
    /\ customer = <<>>
    /\ feedbackData # <<>>
    /\ feedbackData[1].content = <<>>
    /\ feedbackData[1].metadata # <<>>
    /\ ~Lacking(feedbackData[1])

=============================================================================
